---------------------------- MODULE Spec2Model ----------------------------
(***************************************************************************)
(* Model of src/config/data.rs of sugar: the candy-machine configuration   *)
(* document (ConfigData), its serde deserialization, the unit conversions  *)
(* (price_as_lamports, go_live_date_as_timestamp) and the translation of   *)
(* the leaf settings into the mpl_candy_machine types (into_candy_format). *)
(*                                                                         *)
(* Values wider than TLC's 32-bit integers (u64, the 53-bit significand of *)
(* an f64, products of significands) are little-endian limb sequences;      *)
(* strings are sequences of ASCII codes.                                   *)
(***************************************************************************)
EXTENDS Integers, Sequences, FiniteSets, TLC

VARIABLES
    doc,      \* the document handed to the deserializer: a sequence of entries
    pos,      \* index of the next entry of doc the struct visitor reads
    slots,    \* the visitor's per-field locals (None until the field is read)
    result,   \* Result<ConfigData, Error> of the construction, Pending before
    arg,      \* argument of the last function applied
    op,       \* name of the last function applied
    ret       \* value the last function returned

vars == <<doc, pos, slots, result, arg, op, ret>>

None == [t |-> "None"]
Some(v) == [t |-> "Some", v |-> v]
Ok(v) == [t |-> "Ok", v |-> v]
Err(kind, msg) == [t |-> "Err", kind |-> kind, msg |-> msg]
Pending == [t |-> "Pending"]

(***************************************************************************)
(* Unbounded naturals: little-endian sequences of 15-bit limbs without     *)
(* high zero limbs (<<>> is 0).  Limb products stay below 2^31.            *)
(***************************************************************************)
LIMB_BITS == 15
BASE == 32768

Max(S) == CHOOSE x \in S : \A y \in S : y <= x
Min(S) == CHOOSE x \in S : \A y \in S : x <= y

Pow2(k) == 2 ^ k

Norm(x) == LET S == {i \in 1..Len(x) : x[i] # 0}
           IN  IF S = {} THEN <<>> ELSE SubSeq(x, 1, Max(S))

FromNat(n) == Norm(<<n % BASE, (n \div BASE) % BASE, n \div (BASE * BASE)>>)

\* Value of x when it fits in 31 bits.
ToNat(x) == (IF Len(x) >= 1 THEN x[1] ELSE 0)
            + (IF Len(x) >= 2 THEN x[2] * BASE ELSE 0)
            + (IF Len(x) >= 3 THEN x[3] * BASE * BASE ELSE 0)

RECURSIVE AddC(_, _, _)
AddC(a, b, c) ==
    IF a = <<>> /\ b = <<>> THEN (IF c = 0 THEN <<>> ELSE <<c>>)
    ELSE LET x == IF a = <<>> THEN 0 ELSE a[1]
             y == IF b = <<>> THEN 0 ELSE b[1]
             s == x + y + c
         IN  <<s % BASE>> \o AddC(IF a = <<>> THEN <<>> ELSE Tail(a),
                                  IF b = <<>> THEN <<>> ELSE Tail(b),
                                  s \div BASE)

BAdd(a, b) == Norm(AddC(a, b, 0))

\* a * d + c for one limb d.
RECURSIVE MulLimbC(_, _, _)
MulLimbC(a, d, c) ==
    IF a = <<>> THEN (IF c = 0 THEN <<>> ELSE <<c>>)
    ELSE LET p == a[1] * d + c
         IN  <<p % BASE>> \o MulLimbC(Tail(a), d, p \div BASE)

RECURSIVE BMul(_, _)
BMul(a, b) == IF a = <<>> \/ b = <<>> THEN <<>>
              ELSE BAdd(Norm(MulLimbC(a, b[1], 0)), Norm(<<0>> \o BMul(a, Tail(b))))

\* Number of bits of a limb value.
LimbLen(v) == CHOOSE k \in 0..LIMB_BITS : v < Pow2(k) /\ (k = 0 \/ v >= Pow2(k - 1))

BitLen(x) == IF x = <<>> THEN 0 ELSE (Len(x) - 1) * LIMB_BITS + LimbLen(x[Len(x)])

\* Bit i (from 1, lowest first) of x.
Bit(x, i) ==
    LET j == ((i - 1) \div LIMB_BITS) + 1
    IN  IF i < 1 \/ j > Len(x) THEN 0 ELSE (x[j] \div Pow2((i - 1) % LIMB_BITS)) % 2

Limb(x, j) == IF j >= 1 /\ j <= Len(x) THEN x[j] ELSE 0

\* x * 2^k
BShl(x, k) ==
    IF x = <<>> \/ k <= 0 THEN x
    ELSE LET q == k \div LIMB_BITS
             r == k % LIMB_BITS
         IN  Norm([j \in 1..(Len(x) + q + 1) |->
                     IF j <= q THEN 0
                     ELSE ((Limb(x, j - q) % Pow2(LIMB_BITS - r)) * Pow2(r))
                          + (Limb(x, j - q - 1) \div Pow2(LIMB_BITS - r))])

\* x \div 2^k
BShr(x, k) ==
    IF k <= 0 THEN x
    ELSE IF k >= BitLen(x) THEN <<>>
    ELSE LET q == k \div LIMB_BITS
             r == k % LIMB_BITS
         IN  Norm([j \in 1..(Len(x) - q) |->
                     (Limb(x, j + q) \div Pow2(r))
                     + ((Limb(x, j + q + 1) % Pow2(r)) * Pow2(LIMB_BITS - r))])

\* x % 2^k # 0
LowBitsNonZero(x, k) ==
    \E i \in 1..(IF k < BitLen(x) THEN k ELSE BitLen(x)) : Bit(x, i) = 1

\* Number of low zero bits of a non-zero x.
TrailingZeros(x) == IF x = <<>> THEN 0 ELSE Min({i \in 1..BitLen(x) : Bit(x, i) = 1}) - 1

BLess(a, b) ==
    \/ Len(a) < Len(b)
    \/ /\ Len(a) = Len(b)
       /\ \E j \in 1..Len(a) : a[j] < b[j] /\ \A k \in (j + 1)..Len(a) : a[k] = b[k]

\* Big-endian hexadecimal digits to a natural.
RECURSIVE FromHexAcc(_, _)
FromHexAcc(h, acc) ==
    IF h = <<>> THEN acc
    ELSE FromHexAcc(Tail(h), Norm(MulLimbC(acc, 16, h[1])))

FromHex(h) == FromHexAcc(h, <<>>)

(***************************************************************************)
(* IEEE-754 binary64.  A finite value is (-1)^sign * m * 2^e with m odd    *)
(* (or m = 0, e = 0).                                                      *)
(***************************************************************************)
F64_MANT_BITS == 53
F64_MIN_EXP == -1074
F64_MAX_BITLEN == 1024
U64_BITS == 64

NaN == [cls |-> "nan"]
Inf(sign) == [cls |-> "inf", sign |-> sign]
Fin(sign, m, e) ==
    IF m = <<>> THEN [cls |-> "fin", sign |-> sign, m |-> <<>>, e |-> 0]
    ELSE LET z == TrailingZeros(m)
         IN  [cls |-> "fin", sign |-> sign, m |-> BShr(m, z), e |-> e + z]

\* Round the exact value (-1)^sign * M * 2^e to the nearest binary64, ties to even.
F64Round(sign, M, e) ==
    LET L == BitLen(M)
        drop == IF L - F64_MANT_BITS > F64_MIN_EXP - e THEN L - F64_MANT_BITS
                ELSE F64_MIN_EXP - e
        k == IF drop > 0 THEN drop ELSE 0
        q == BShr(M, k)
        up == /\ Bit(M, k) = 1
              /\ (LowBitsNonZero(M, k - 1) \/ Bit(q, 1) = 1)
        r == IF up THEN BAdd(q, <<1>>) ELSE q
    IN  IF r # <<>> /\ BitLen(r) + e + k > F64_MAX_BITLEN THEN Inf(sign)
        ELSE Fin(sign, r, e + k)

\* `n as f64` for an unsigned integer n.
U64ToF64(n) == F64Round(0, n, 0)

\* a * b in binary64.
F64Mul(a, b) ==
    IF a.cls = "nan" \/ b.cls = "nan" THEN NaN
    ELSE LET s == (a.sign + b.sign) % 2
         IN  IF a.cls = "inf" \/ b.cls = "inf"
             THEN (IF (a.cls = "fin" /\ a.m = <<>>) \/ (b.cls = "fin" /\ b.m = <<>>)
                   THEN NaN ELSE Inf(s))
             ELSE F64Round(s, BMul(a.m, b.m), a.e + b.e)

U64_MAX == <<32767, 32767, 32767, 32767, 15>>

\* Variant: the cast rounds to the nearest integer instead of truncating.
F64ToU64_RoundNearest(x) ==
    IF x.cls = "nan" THEN <<>>
    ELSE IF x.sign = 1 THEN <<>>
    ELSE IF x.cls = "inf" THEN U64_MAX
    ELSE IF x.m = <<>> THEN <<>>
    ELSE IF x.e >= 0
         THEN (IF BitLen(x.m) + x.e > U64_BITS THEN U64_MAX ELSE BShl(x.m, x.e))
         ELSE BShr(BAdd(x.m, BShl(<<1>>, -x.e - 1)), -x.e)

\* Variant: the cast keeps the low 64 bits of the magnitude instead of clamping.
F64ToU64_Wrapping(x) ==
    IF x.cls # "fin" THEN <<>>
    ELSE IF x.m = <<>> THEN <<>>
    ELSE IF x.e >= U64_BITS THEN <<>>
    ELSE IF x.e >= 0
         THEN LET w == BShl(x.m, x.e)
              IN  Norm([i \in 1..(IF Len(w) < 5 THEN Len(w) ELSE 5) |->
                          IF i = 5 THEN w[i] % 16 ELSE w[i]])
         ELSE BShr(x.m, -x.e)

\* `x as u64`: truncation toward zero, saturating; NaN gives 0.
F64ToU64(x) ==
    IF x.cls = "nan" THEN <<>>
    ELSE IF x.sign = 1 THEN <<>>
    ELSE IF x.cls = "inf" THEN U64_MAX
    ELSE IF x.m = <<>> THEN <<>>
    ELSE IF x.e >= 0
         THEN (IF BitLen(x.m) + x.e > U64_BITS THEN U64_MAX ELSE BShl(x.m, x.e))
         ELSE BShr(x.m, -x.e)

LAMPORTS_PER_SOL == 1000000000

price_as_lamports(price) ==
    F64ToU64(F64Mul(price, U64ToF64(FromNat(LAMPORTS_PER_SOL))))

\* Variant: the discount is cast to an integer before it is multiplied.
discount_price_to_lamports_CastFirst(discount_price) ==
    IF discount_price.t = "Some"
    THEN Some(BMul(F64ToU64(discount_price.v), FromNat(LAMPORTS_PER_SOL)))
    ELSE None

discount_price_to_lamports(discount_price) ==
    IF discount_price.t = "Some"
    THEN Some(F64ToU64(F64Mul(discount_price.v, U64ToF64(FromNat(LAMPORTS_PER_SOL)))))
    ELSE None

(***************************************************************************)
(* Strings (sequences of ASCII codes) and the two FromStr parsers.         *)
(***************************************************************************)
\* str::to_lowercase on ASCII text.
ToLower(s) == [i \in 1..Len(s) |-> IF s[i] >= 65 /\ s[i] <= 90 THEN s[i] + 32 ELSE s[i]]

STR_metaplex == <<109, 101, 116, 97, 112, 108, 101, 120>>                       \* "metaplex"
STR_bundlr == <<98, 117, 110, 100, 108, 114>>                                   \* "bundlr"
STR_arloader == <<97, 114, 108, 111, 97, 100, 101, 114>>                        \* "arloader"
STR_burneverytime == <<98, 117, 114, 110, 101, 118, 101, 114, 121, 116, 105, 109, 101>>  \* "burneverytime"
STR_neverburn == <<110, 101, 118, 101, 114, 98, 117, 114, 110>>                 \* "neverburn"
STR_burnEveryTime == <<98, 117, 114, 110, 69, 118, 101, 114, 121, 84, 105, 109, 101>>    \* "burnEveryTime"
STR_neverBurn == <<110, 101, 118, 101, 114, 66, 117, 114, 110>>                 \* "neverBurn"
\* "Unknown storage: "
MSG_UnknownStorage == <<85, 110, 107, 110, 111, 119, 110, 32, 115, 116, 111, 114, 97, 103, 101, 58, 32>>
\* "Invalid whitelist mint mode: "
MSG_InvalidMode == <<73, 110, 118, 97, 108, 105, 100, 32, 119, 104, 105, 116, 101, 108, 105, 115,
                     116, 32, 109, 105, 110, 116, 32, 109, 111, 100, 101, 58, 32>>
\* "unknown variant `"
MSG_UnknownVariant == <<117, 110, 107, 110, 111, 119, 110, 32, 118, 97, 114, 105, 97, 110, 116, 32, 96>>
\* "`, expected one of `burnEveryTime`, `neverBurn`"
MSG_ExpectedMode == <<96, 44, 32, 101, 120, 112, 101, 99, 116, 101, 100, 32, 111, 110, 101, 32, 111,
                      102, 32, 96, 98, 117, 114, 110, 69, 118, 101, 114, 121, 84, 105, 109, 101, 96,
                      44, 32, 96, 110, 101, 118, 101, 114, 66, 117, 114, 110, 96>>
\* "Invalid Base58 string"
MSG_InvalidBase58 == <<73, 110, 118, 97, 108, 105, 100, 32, 66, 97, 115, 101, 53, 56, 32, 115, 116,
                       114, 105, 110, 103>>
\* "String is the wrong size"
MSG_WrongSize == <<83, 116, 114, 105, 110, 103, 32, 105, 115, 32, 116, 104, 101, 32, 119, 114, 111,
                   110, 103, 32, 115, 105, 122, 101>>

WhitelistMintMode_from_str(s) ==
    LET l == ToLower(s)
    IN  IF l = STR_burneverytime THEN Ok("BurnEveryTime")
        ELSE IF l = STR_neverburn THEN Ok("NeverBurn")
        ELSE Err("anyhow", MSG_InvalidMode \o s)

\* Variant: the message reports the lower-cased string.
UploadMethod_from_str_LowerMsg(s) ==
    LET l == ToLower(s)
    IN  IF l = STR_metaplex THEN Ok("Metaplex")
        ELSE IF l = STR_bundlr THEN Ok("Bundlr")
        ELSE IF l = STR_arloader THEN Ok("Arloader")
        ELSE Err("String", MSG_UnknownStorage \o l)

UploadMethod_from_str(s) ==
    LET l == ToLower(s)
    IN  IF l = STR_metaplex THEN Ok("Metaplex")
        ELSE IF l = STR_bundlr THEN Ok("Bundlr")
        ELSE IF l = STR_arloader THEN Ok("Arloader")
        ELSE Err("String", MSG_UnknownStorage \o s)

(***************************************************************************)
(* Pubkey::from_str: base-58 text of at most 44 characters that decodes to *)
(* exactly 32 bytes.                                                       *)
(***************************************************************************)
PUBKEY_BYTES == 32
MAX_BASE58_LEN == 44
B58_ALPHABET ==
    <<49, 50, 51, 52, 53, 54, 55, 56, 57, 65, 66, 67, 68, 69, 70, 71, 72, 74, 75, 76, 77, 78, 80,
      81, 82, 83, 84, 85, 86, 87, 88, 89, 90, 97, 98, 99, 100, 101, 102, 103, 104, 105, 106, 107,
      109, 110, 111, 112, 113, 114, 115, 116, 117, 118, 119, 120, 121, 122>>

\* Value of a base-58 digit; only used on characters of the alphabet.
B58Digit(c) == (CHOOSE i \in 1..Len(B58_ALPHABET) : B58_ALPHABET[i] = c) - 1
IsB58(c) == \E i \in 1..Len(B58_ALPHABET) : B58_ALPHABET[i] = c

\* out * 58 + val over little-endian bytes; the final carry appends new bytes.
RECURSIVE B58Carry(_)
B58Carry(val) == IF val = 0 THEN <<>> ELSE <<val % 256>> \o B58Carry(val \div 256)

RECURSIVE B58MulAdd(_, _)
B58MulAdd(out, val) ==
    IF out = <<>> THEN B58Carry(val)
    ELSE LET v == val + out[1] * 58
         IN  <<v % 256>> \o B58MulAdd(Tail(out), v \div 256)

RECURSIVE B58Acc(_, _)
B58Acc(s, out) ==
    IF s = <<>> THEN out
    ELSE B58Acc(Tail(s), B58MulAdd(out, B58Digit(s[1])))

Zeros(k) == [i \in 1..k |-> 0]
Reverse(q) == [i \in 1..Len(q) |-> q[Len(q) + 1 - i]]

\* Number of leading '1' characters (the zero digit).
LeadingOnes(s) == IF \A i \in 1..Len(s) : s[i] = B58_ALPHABET[1] THEN Len(s)
                  ELSE Min({i \in 1..Len(s) : s[i] # B58_ALPHABET[1]}) - 1

\* bs58::decode(s).into_vec()
Bs58Decode(s) ==
    IF \E i \in 1..Len(s) : ~IsB58(s[i]) THEN Err("bs58", <<>>)
    ELSE Ok(Reverse(B58Acc(s, <<>>) \o Zeros(LeadingOnes(s))))

\* The decoded bytes d make a Pubkey only if there are exactly 32 of them.
Pubkey_try_from(d) ==
    IF d.t = "Err" THEN Err("ParsePubkeyError", MSG_InvalidBase58)
    ELSE IF Len(d.v) # PUBKEY_BYTES THEN Err("ParsePubkeyError", MSG_WrongSize)
    ELSE Ok([t |-> "Pubkey", bytes |-> d.v])

Pubkey_from_str(s) ==
    IF Len(s) > MAX_BASE58_LEN THEN Err("ParsePubkeyError", MSG_WrongSize)
    ELSE Pubkey_try_from(Bs58Decode(s))

(***************************************************************************)
(* chrono::DateTime::parse_from_rfc3339 followed by timestamp().           *)
(* date-time = YYYY-MM-DD ("T"|"t") hh:mm:ss ["." 1*DIGIT]                 *)
(*             ("Z"|"z"|("+"|"-") hh ":" mm), nothing before or after.     *)
(***************************************************************************)
CH_0 == 48
CH_9 == 57
CH_DASH == 45
CH_PLUS == 43
CH_COLON == 58
CH_DOT == 46
CH_T == 84
CH_Z == 90
SECS_PER_DAY == 86400

IsDigit(c) == c >= CH_0 /\ c <= CH_9
At(s, i) == IF i >= 1 /\ i <= Len(s) THEN s[i] ELSE 0
DigitsAt(s, i, n) == \A j \in i..(i + n - 1) : IsDigit(At(s, j))
Num2(s, i) == (s[i] - CH_0) * 10 + (s[i + 1] - CH_0)
Num4(s, i) == Num2(s, i) * 100 + Num2(s, i + 2)

IsLeapYear(y) == (y % 4 = 0 /\ y % 100 # 0) \/ y % 400 = 0
DaysInMonth(y, m) ==
    IF m = 2 THEN (IF IsLeapYear(y) THEN 29 ELSE 28)
    ELSE IF m \in {4, 6, 9, 11} THEN 30 ELSE 31

LeapsUpTo(y) == (y \div 4) - (y \div 100) + (y \div 400)
CumDays == <<0, 31, 59, 90, 120, 151, 181, 212, 243, 273, 304, 334>>
\* Variant: leap days are not counted.
DaysFromEpoch_NoLeap(y, m, d) == 365 * (y - 1970) + CumDays[m] + (d - 1)

\* Days from 1970-01-01 to y-m-d.
DaysFromEpoch(y, m, d) ==
    365 * (y - 1970) + (LeapsUpTo(y - 1) - LeapsUpTo(1969))
    + CumDays[m] + (IF m > 2 /\ IsLeapYear(y) THEN 1 ELSE 0) + (d - 1)

\* Index of the first character after the optional fraction starting at i, 0 if malformed.
AfterFraction(s, i) ==
    IF At(s, i) # CH_DOT THEN i
    ELSE IF ~IsDigit(At(s, i + 1)) THEN 0
    ELSE Min({j \in (i + 2)..(Len(s) + 1) : ~IsDigit(At(s, j))})

\* Offset in seconds east of UTC of the zone starting at i and ending the string.
ZoneOffset(s, i) ==
    IF i = Len(s) /\ At(s, i) \in {CH_Z, CH_Z + 32} THEN Ok(0)
    ELSE IF /\ i + 5 = Len(s)
            /\ At(s, i) \in {CH_PLUS, CH_DASH}
            /\ DigitsAt(s, i + 1, 2)
            /\ At(s, i + 3) = CH_COLON
            /\ DigitsAt(s, i + 4, 2)
         THEN LET h == Num2(s, i + 1)
                  m == Num2(s, i + 4)
                  secs == h * 3600 + m * 60
              IN  IF m > 59 \/ secs >= SECS_PER_DAY THEN Err("chrono::ParseError", <<>>)
                  ELSE Ok(IF At(s, i) = CH_DASH THEN -secs ELSE secs)
    ELSE Err("chrono::ParseError", <<>>)

go_live_date_as_timestamp(s) ==
    IF ~(/\ DigitsAt(s, 1, 4) /\ At(s, 5) = CH_DASH
         /\ DigitsAt(s, 6, 2) /\ At(s, 8) = CH_DASH
         /\ DigitsAt(s, 9, 2) /\ At(s, 11) \in {CH_T, CH_T + 32}
         /\ DigitsAt(s, 12, 2) /\ At(s, 14) = CH_COLON
         /\ DigitsAt(s, 15, 2) /\ At(s, 17) = CH_COLON
         /\ DigitsAt(s, 18, 2))
    THEN Err("chrono::ParseError", <<>>)
    ELSE LET y == Num4(s, 1)
             mo == Num2(s, 6)
             d == Num2(s, 9)
             h == Num2(s, 12)
             mi == Num2(s, 15)
             sec == Num2(s, 18)
             z == AfterFraction(s, 20)
         IN  IF z = 0 THEN Err("chrono::ParseError", <<>>)
             ELSE LET off == ZoneOffset(s, z)
                  IN  IF off.t = "Err" THEN off
                      ELSE IF \/ mo < 1 \/ mo > 12 \/ d < 1 \/ d > DaysInMonth(y, mo)
                              \/ h > 23 \/ mi > 59 \/ sec > 60
                           THEN Err("chrono::ParseError", <<>>)
                      ELSE Ok(DaysFromEpoch(y, mo, d) * SECS_PER_DAY + h * 3600 + mi * 60
                              + (IF sec = 60 THEN 59 ELSE sec) - off.v)

(***************************************************************************)
(* The document: the serde data model as serde_json presents it.           *)
(* A map is the sequence of its entries in document order.                 *)
(***************************************************************************)
JNull == [t |-> "null"]
JBool(b) == [t |-> "bool", b |-> b]
JStr(s) == [t |-> "str", s |-> s]
JU64(n) == [t |-> "u64", n |-> n]          \* a non-negative integer literal
JI64(n) == [t |-> "i64", n |-> n]          \* a negative integer literal
JF64(x) == [t |-> "f64", x |-> x]          \* a literal with fraction or exponent
JSeq(a) == [t |-> "seq", a |-> a]
JMap(m) == [t |-> "map", m |-> m]
Entry(k, v) == [k |-> k, v |-> v]

ErrField(kind, field) == [t |-> "Err", kind |-> kind, field |-> field]

U8_MAX == 255
HASH_LEN == 32

De_String(v) == IF v.t = "str" THEN Ok(v.s) ELSE Err("invalid_type", <<>>)
De_bool(v) == IF v.t = "bool" THEN Ok(v.b) ELSE Err("invalid_type", <<>>)
De_u64(v) == IF v.t = "u64" THEN Ok(v.n)
             ELSE IF v.t = "i64" THEN Err("invalid_value", <<>>)
             ELSE Err("invalid_type", <<>>)
De_u8(v) == IF v.t = "u64" THEN (IF v.n <= U8_MAX THEN Ok(v.n) ELSE Err("invalid_value", <<>>))
            ELSE IF v.t = "i64" THEN Err("invalid_value", <<>>)
            ELSE Err("invalid_type", <<>>)
De_f64(v) == IF v.t = "f64" THEN Ok(v.x)
             ELSE IF v.t = "u64" THEN Ok(U64ToF64(FromNat(v.n)))
             ELSE IF v.t = "i64" THEN Ok(F64Round(1, FromNat(-v.n), 0))
             ELSE Err("invalid_type", <<>>)

\* `?` followed by Ok(Some(..)): an error is passed on, a value is wrapped.
MapSome(r) == IF r.t = "Err" THEN r ELSE Ok(Some(r.v))
\* .map_err(serde::de::Error::custom): the error's text becomes a custom error.
MapErrCustom(r) == IF r.t = "Err" THEN Err("custom", r.msg) ELSE r

De_Option_f64(v) == IF v.t = "null" THEN Ok(None) ELSE MapSome(De_f64(v))

\* Variant: elements after the n-th are ignored.
De_ByteArray_Prefix(v, n) ==
    IF v.t # "seq" THEN Err("invalid_type", <<>>)
    ELSE LET bad == {i \in 1..n : i > Len(v.a) \/ De_u8(v.a[i]).t = "Err"}
         IN  IF bad # {}
             THEN (IF Min(bad) > Len(v.a) THEN Err("invalid_length", <<>>)
                   ELSE De_u8(v.a[Min(bad)]))
             ELSE Ok([i \in 1..n |-> v.a[i].n])

\* [u8; N]: exactly n elements, read in order.
De_ByteArray(v, n) ==
    IF v.t # "seq" THEN Err("invalid_type", <<>>)
    ELSE LET bad == {i \in 1..n : i > Len(v.a) \/ De_u8(v.a[i]).t = "Err"}
         IN  IF bad # {}
             THEN (IF Min(bad) > Len(v.a) THEN Err("invalid_length", <<>>)
                   ELSE De_u8(v.a[Min(bad)]))
             ELSE IF Len(v.a) > n THEN Err("invalid_length", <<>>)
             ELSE Ok([i \in 1..n |-> v.a[i].n])

\* Pubkey's own Deserialize: a newtype around [u8; 32].
Pubkey_new(r) == IF r.t = "Err" THEN r ELSE Ok([t |-> "Pubkey", bytes |-> r.v])
De_Pubkey(v) == Pubkey_new(De_ByteArray(v, PUBKEY_BYTES))

to_pubkey(v) ==
    IF De_String(v).t = "Err" THEN De_String(v)
    ELSE MapErrCustom(Pubkey_from_str(De_String(v).v))

\* Variant: a string that does not decode is treated as absent.
to_option_pubkey_Lenient(v) ==
    IF De_String(v).t = "Err" THEN Ok(None)
    ELSE IF Pubkey_from_str(De_String(v).v).t = "Err" THEN Ok(None)
    ELSE MapSome(Pubkey_from_str(De_String(v).v))

to_option_pubkey(v) ==
    IF De_String(v).t = "Err" THEN Ok(None)
    ELSE MapSome(MapErrCustom(Pubkey_from_str(De_String(v).v)))

UploadMethod_deserialize(v) ==
    IF De_String(v).t = "Err" THEN De_String(v)
    ELSE MapErrCustom(UploadMethod_from_str(De_String(v).v))

\* derive(Deserialize) with rename_all = "camelCase": exact variant names.
WhitelistMintMode_deserialize(v) ==
    IF v.t # "str" THEN Err("invalid_type", <<>>)
    ELSE IF v.s = STR_burnEveryTime THEN Ok("BurnEveryTime")
    ELSE IF v.s = STR_neverBurn THEN Ok("NeverBurn")
    ELSE Err("unknown_variant", MSG_UnknownVariant \o v.s \o MSG_ExpectedMode)

STR_Date == <<68, 97, 116, 101>>                \* "Date"
STR_Amount == <<65, 109, 111, 117, 110, 116>>   \* "Amount"
\* "`, expected `Date` or `Amount`"
MSG_ExpectedEnd == <<96, 44, 32, 101, 120, 112, 101, 99, 116, 101, 100, 32, 96, 68, 97, 116, 101,
                     96, 32, 111, 114, 32, 96, 65, 109, 111, 117, 110, 116, 96>>

\* derive(Deserialize) without renaming; the variant given as a string.
EndSettingType_deserialize(v) ==
    IF v.t # "str" THEN Err("invalid_type", <<>>)
    ELSE IF v.s = STR_Date THEN Ok("Date")
    ELSE IF v.s = STR_Amount THEN Ok("Amount")
    ELSE Err("unknown_variant", MSG_UnknownVariant \o v.s \o MSG_ExpectedEnd)

(***************************************************************************)
(* The derived struct visitors.  Each field: document key, Rust name,      *)
(* whether it has deserialize_with, whether its type is Option<_>.         *)
(***************************************************************************)
Field(key, name, with, opt) == [key |-> key, name |-> name, with |-> with, opt |-> opt]

FieldsOf(st) ==
    CASE st = "ConfigData" ->
           << Field("price", "price", FALSE, FALSE),
              Field("number", "number", FALSE, FALSE),
              Field("gatekeeper", "gatekeeper", FALSE, TRUE),
              Field("solTreasuryAccount", "sol_treasury_account", TRUE, FALSE),
              Field("splTokenAccount", "spl_token_account", TRUE, TRUE),
              Field("splToken", "spl_token", TRUE, TRUE),
              Field("goLiveDate", "go_live_date", FALSE, FALSE),
              Field("endSettings", "end_settings", FALSE, TRUE),
              Field("whitelistMintSettings", "whitelist_mint_settings", FALSE, TRUE),
              Field("hiddenSettings", "hidden_settings", FALSE, TRUE),
              Field("uploadMethod", "upload_method", FALSE, FALSE),
              Field("retainAuthority", "retain_authority", FALSE, FALSE),
              Field("isMutable", "is_mutable", FALSE, FALSE) >>
      [] st = "GatekeeperConfig" ->
           << Field("gatekeeper_network", "gatekeeper_network", FALSE, FALSE),
              Field("expire_on_use", "expire_on_use", FALSE, FALSE) >>
      [] st = "EndSettings" ->
           << Field("end_setting_type", "end_setting_type", FALSE, FALSE),
              Field("number", "number", FALSE, FALSE) >>
      [] st = "WhitelistMintSettings" ->
           << Field("mode", "mode", FALSE, FALSE),
              Field("mint", "mint", TRUE, FALSE),
              Field("presale", "presale", FALSE, FALSE),
              Field("discountPrice", "discount_price", FALSE, TRUE) >>
      [] st = "HiddenSettings" ->
           << Field("name", "name", FALSE, FALSE),
              Field("uri", "uri", FALSE, FALSE),
              Field("hash", "hash", FALSE, FALSE) >>

FieldNames(st) == {FieldsOf(st)[i].name : i \in 1..Len(FieldsOf(st))}
IsKey(st, k) == \E i \in 1..Len(FieldsOf(st)) : FieldsOf(st)[i].key = k
FieldOfKey(st, k) == FieldsOf(st)[CHOOSE i \in 1..Len(FieldsOf(st)) : FieldsOf(st)[i].key = k]
EmptySlots(st) == [n \in FieldNames(st) |-> None]

\* The deserializer of one field's value in the structs nested in ConfigData.
DeNestedField(st, name, v) ==
    CASE st = "GatekeeperConfig" /\ name = "gatekeeper_network" -> De_Pubkey(v)
      [] st = "GatekeeperConfig" /\ name = "expire_on_use" -> De_bool(v)
      [] st = "EndSettings" /\ name = "end_setting_type" -> EndSettingType_deserialize(v)
      [] st = "EndSettings" /\ name = "number" -> De_u64(v)
      [] st = "WhitelistMintSettings" /\ name = "mode" -> WhitelistMintMode_deserialize(v)
      [] st = "WhitelistMintSettings" /\ name = "mint" -> to_pubkey(v)
      [] st = "WhitelistMintSettings" /\ name = "presale" -> De_bool(v)
      [] st = "WhitelistMintSettings" /\ name = "discount_price" -> De_Option_f64(v)
      [] st = "HiddenSettings" /\ name = "name" -> De_String(v)
      [] st = "HiddenSettings" /\ name = "uri" -> De_String(v)
      [] st = "HiddenSettings" /\ name = "hash" -> De_ByteArray(v, HASH_LEN)

\* Variant: a value that fails to deserialize is skipped and reading goes on.
VisitEntry_SkipInvalid(st, sl, e, r) ==
    IF ~IsKey(st, e.k) THEN Ok(sl)
    ELSE LET f == FieldOfKey(st, e.k)
         IN  IF sl[f.name].t = "Some" THEN ErrField("duplicate_field", f.key)
             ELSE IF r.t = "Err" THEN Ok(sl)
             ELSE Ok([sl EXCEPT ![f.name] = Some(r.v)])

\* One iteration of visit_map: an unknown key is skipped, a repeated key is an
\* error, otherwise the value is deserialized into the field's local.  r is
\* what the field's deserializer gives on the entry's value; it is looked at
\* only once the key is known and not repeated.
VisitEntry(st, sl, e, r) ==
    IF ~IsKey(st, e.k) THEN Ok(sl)
    ELSE LET f == FieldOfKey(st, e.k)
         IN  IF sl[f.name].t = "Some" THEN ErrField("duplicate_field", f.key)
             ELSE IF r.t = "Err" THEN r
             ELSE Ok([sl EXCEPT ![f.name] = Some(r.v)])

\* A field that no entry supplied.
MissingField(f) ==
    IF f.with THEN ErrField("missing_field", f.key)
    ELSE IF f.opt THEN Ok(None)
    ELSE ErrField("missing_field", f.key)

\* After the last entry: the struct is built only if no field is missing.
EndOfMap(st, sl) ==
    LET fs == FieldsOf(st)
        bad == {i \in 1..Len(fs) : sl[fs[i].name].t = "None" /\ MissingField(fs[i]).t = "Err"}
    IN  IF bad # {} THEN MissingField(fs[Min(bad)])
        ELSE Ok([n \in FieldNames(st) |->
                   IF sl[n].t = "Some" THEN sl[n].v ELSE None])

\* visit_map of a nested struct: the entries of m in order, r being the
\* outcome so far; the first error ends the reading.
RECURSIVE VisitMap(_, _, _)
VisitMap(st, m, r) ==
    IF r.t = "Err" THEN r
    ELSE IF m = <<>> THEN EndOfMap(st, r.v)
    ELSE VisitMap(st, Tail(m),
                  VisitEntry(st, r.v, m[1],
                             DeNestedField(st, FieldOfKey(st, m[1].k).name, m[1].v)))

\* The outcome of visit_seq from the fields' results rs, in field order.
SeqOutcome(fs, n, rs) ==
    IF \E i \in 1..Len(fs) : i > n \/ rs[i].t = "Err"
    THEN (IF Min({i \in 1..Len(fs) : i > n \/ rs[i].t = "Err"}) > n
          THEN Err("invalid_length", <<>>)
          ELSE rs[Min({i \in 1..Len(fs) : i > n \/ rs[i].t = "Err"})])
    ELSE IF n > Len(fs) THEN Err("invalid_length", <<>>)
    ELSE Ok([x \in {fs[i].name : i \in 1..Len(fs)} |->
               rs[CHOOSE i \in 1..Len(fs) : fs[i].name = x].v])

\* visit_seq of a nested struct: the fields positionally.
VisitSeqOf(st, fs, a) ==
    SeqOutcome(fs, Len(a),
               [i \in 1..Min({Len(fs), Len(a)}) |-> DeNestedField(st, fs[i].name, a[i])])
VisitSeq(st, a) == VisitSeqOf(st, FieldsOf(st), a)

DeStruct(st, v) ==
    IF v.t = "map" THEN VisitMap(st, v.m, Ok(EmptySlots(st)))
    ELSE IF v.t = "seq" THEN VisitSeq(st, v.a)
    ELSE Err("invalid_type", <<>>)

De_OptionStruct(st, v) == IF v.t = "null" THEN Ok(None) ELSE MapSome(DeStruct(st, v))

\* The struct of a nested field of ConfigData.
NestedStruct(name) ==
    CASE name = "gatekeeper" -> "GatekeeperConfig"
      [] name = "end_settings" -> "EndSettings"
      [] name = "whitelist_mint_settings" -> "WhitelistMintSettings"
      [] name = "hidden_settings" -> "HiddenSettings"

\* The deserializer of one field's value.
DeField(st, name, v) ==
    CASE st = "ConfigData" /\ name = "price" -> De_f64(v)
      [] st = "ConfigData" /\ name = "number" -> De_u64(v)
      [] st = "ConfigData" /\ name = "sol_treasury_account" -> to_pubkey(v)
      [] st = "ConfigData" /\ name \in {"spl_token_account", "spl_token"} -> to_option_pubkey(v)
      [] st = "ConfigData" /\ name = "go_live_date" -> De_String(v)
      [] st = "ConfigData" /\ name \in {"gatekeeper", "end_settings", "whitelist_mint_settings",
                                        "hidden_settings"} ->
             De_OptionStruct(NestedStruct(name), v)
      [] st = "ConfigData" /\ name = "upload_method" -> UploadMethod_deserialize(v)
      [] st = "ConfigData" /\ name \in {"retain_authority", "is_mutable"} -> De_bool(v)
      [] st # "ConfigData" -> DeNestedField(st, name, v)

(***************************************************************************)
(* Translation to the mpl_candy_machine types.                             *)
(***************************************************************************)
CandyEndSettingType(variant) == [candy |-> "EndSettingType", variant |-> variant]
CandyWhitelistMintMode(variant) == [candy |-> "WhitelistMintMode", variant |-> variant]

GatekeeperConfig_into_candy_format(self) ==
    [candy |-> "GatekeeperConfig",
     gatekeeper_network |-> self.gatekeeper_network,
     expire_on_use |-> self.expire_on_use]

\* Variant: both arms of the match name the same external variant.
EndSettingType_into_candy_format_SameArm(self) ==
    CASE self = "Date" -> CandyEndSettingType("Date")
      [] self = "Amount" -> CandyEndSettingType("Date")

EndSettingType_into_candy_format(self) ==
    CASE self = "Date" -> CandyEndSettingType("Date")
      [] self = "Amount" -> CandyEndSettingType("Amount")

EndSettings_into_candy_format(self) ==
    [candy |-> "EndSettings",
     end_setting_type |-> EndSettingType_into_candy_format(self.end_setting_type),
     number |-> self.number]

WhitelistMintMode_into_candy_format(self) ==
    CASE self = "BurnEveryTime" -> CandyWhitelistMintMode("BurnEveryTime")
      [] self = "NeverBurn" -> CandyWhitelistMintMode("NeverBurn")

WhitelistMintSettings_into_candy_format(self) ==
    [candy |-> "WhitelistMintSettings",
     mode |-> WhitelistMintMode_into_candy_format(self.mode),
     mint |-> self.mint,
     presale |-> self.presale,
     discount_price |-> discount_price_to_lamports(self.discount_price)]

HiddenSettings_into_candy_format(self) ==
    [candy |-> "HiddenSettings",
     name |-> self.name,
     uri |-> self.uri,
     hash |-> self.hash]

(***************************************************************************)
(* Inputs: the documents the deserializer is run on.                       *)
(***************************************************************************)
MaxExp == 36        \* binary exponents of the generated prices: 2^-MaxExp .. 2^MaxExp
MaxUpper == 2       \* letters upper-cased in a generated spelling of an enum token
MaxHashLen == 34    \* longest generated hash array
MaxNumber == 3      \* largest generated u64 count

\* "11111111111111111111111111111111"
ADDR_System ==
    <<49, 49, 49, 49, 49, 49, 49, 49, 49, 49, 49, 49, 49, 49, 49, 49, 49, 49, 49, 49, 49,
    49, 49, 49, 49, 49, 49, 49, 49, 49, 49, 49>>
\* "So11111111111111111111111111111111111111112"
ADDR_WrappedSol ==
    <<83, 111, 49, 49, 49, 49, 49, 49, 49, 49, 49, 49, 49, 49, 49, 49, 49, 49, 49, 49, 49,
    49, 49, 49, 49, 49, 49, 49, 49, 49, 49, 49, 49, 49, 49, 49, 49, 49, 49, 49, 49, 49, 50>>
\* "not-a-valid-address"
STR_NotValid ==
    <<110, 111, 116, 45, 97, 45, 118, 97, 108, 105, 100, 45, 97, 100, 100, 114, 101, 115,
    115>>
\* "1111"
ADDR_Short == <<49, 49, 49, 49>>
\* "111111111111111111111111111111111111111111111"
ADDR_Long ==
    <<49, 49, 49, 49, 49, 49, 49, 49, 49, 49, 49, 49, 49, 49, 49, 49, 49, 49, 49, 49, 49,
    49, 49, 49, 49, 49, 49, 49, 49, 49, 49, 49, 49, 49, 49, 49, 49, 49, 49, 49, 49, 49, 49,
    49, 49>>
\* "So1111111111111111111111111111111111111111l"
ADDR_BadChar ==
    <<83, 111, 49, 49, 49, 49, 49, 49, 49, 49, 49, 49, 49, 49, 49, 49, 49, 49, 49, 49, 49,
    49, 49, 49, 49, 49, 49, 49, 49, 49, 49, 49, 49, 49, 49, 49, 49, 49, 49, 49, 49, 49,
    108>>
\* "dropbox"
STR_dropbox == <<100, 114, 111, 112, 98, 111, 120>>
\* " bundlr"
STR_LeadSpace == <<32, 98, 117, 110, 100, 108, 114>>
\* "bundlr "
STR_TrailSpace == <<98, 117, 110, 100, 108, 114, 32>>
\* "2022-01-01T00:00:00Z"
STR_GoLive == <<50, 48, 50, 50, 45, 48, 49, 45, 48, 49, 84, 48, 48, 58, 48, 48, 58, 48, 48, 90>>
\* "2022-01-01"
STR_DateOnly == <<50, 48, 50, 50, 45, 48, 49, 45, 48, 49>>
\* "soon"
STR_soon == <<115, 111, 111, 110>>
\* "Other"
STR_Other == <<79, 116, 104, 101, 114>>
\* "date"
STR_date == <<100, 97, 116, 101>>
\* "Collection"
STR_Name == <<67, 111, 108, 108, 101, 99, 116, 105, 111, 110>>
\* "https://example.com/hidden.json"
STR_Uri ==
    <<104, 116, 116, 112, 115, 58, 47, 47, 101, 120, 97, 109, 112, 108, 101, 46, 99, 111,
    109, 47, 104, 105, 100, 100, 101, 110, 46, 106, 115, 111, 110>>

\* Significands (hexadecimal) of the generated prices.
MANT_1 == FromHex(<<1>>)
MANT_1e_9 == FromHex(<<1, 1, 2, 14, 0, 11, 14, 8, 2, 6, 13, 6, 9, 5>>)     \* 1e-9 = 0x112E0BE826D695 * 2^-82
MANT_0_29 == FromHex(<<1, 2, 8, 15, 5, 12, 2, 8, 15, 5, 12, 2, 8, 15>>)    \* 0.29 = 0x128F5C28F5C28F * 2^-54
MANT_Max == FromHex(<<1, 15, 15, 15, 15, 15, 15, 15, 15, 15, 15, 15, 15, 15>>)  \* 2^53 - 1
MANT_1e300 == FromHex(<<1, 7, 14, 4, 3, 12, 8, 8, 0, 0, 7, 5, 9, 12>>)     \* 1e300 = 0x17E43C8800759C * 2^944

F64_One == Fin(0, MANT_1, 0)                  \* 1.0
F64_Half == Fin(0, MANT_1, -1)                \* 0.5
F64_1e_9 == Fin(0, MANT_1e_9, -82)            \* 0.000000001
F64_5e_10 == Fin(0, MANT_1e_9, -83)           \* 0.0000000005
F64_0_29 == Fin(0, MANT_0_29, -54)            \* 0.29
F64_BelowOne == Fin(0, MANT_Max, -53)         \* 0.9999999999999999
F64_Max == Fin(0, MANT_Max, 971)              \* 1.7976931348623157e308
F64_MinSubnormal == Fin(0, MANT_1, -1074)     \* 5e-324

Mants == {MANT_1, MANT_1e_9, MANT_0_29, MANT_Max}

PriceInputs ==
    {Fin(sg, m, e) : sg \in {0, 1}, m \in Mants,
                     e \in (-F64_MANT_BITS - MaxExp)..(-F64_MANT_BITS + MaxExp)}
    \cup {F64_One, F64_Half, F64_1e_9, F64_5e_10, F64_0_29, F64_BelowOne, F64_Max,
          F64_MinSubnormal, Fin(0, <<>>, 0), Fin(1, <<>>, 0), Fin(1, MANT_1, 0),
          Fin(0, MANT_1e300, 944), Fin(1, MANT_1e300, 944), Fin(1, MANT_1, -1074)}

\* The spellings of a lower-case token with at most MaxUpper letters, or all, upper-cased.
Upper(s, S) == [i \in 1..Len(s) |-> IF i \in S /\ s[i] >= 97 /\ s[i] <= 122 THEN s[i] - 32 ELSE s[i]]
Spellings(s) ==
    {Upper(s, S) : S \in {T \in SUBSET (1..Len(s)) : Cardinality(T) <= MaxUpper}}
    \cup {Upper(s, 1..Len(s))}

UploadInputs ==
    Spellings(STR_metaplex) \cup Spellings(STR_bundlr) \cup Spellings(STR_arloader)
    \cup {STR_dropbox, Upper(STR_dropbox, {1}), STR_LeadSpace, STR_TrailSpace, <<>>,
          STR_burneverytime}

ModeInputs ==
    Spellings(STR_burneverytime) \cup Spellings(STR_neverburn)
    \cup {STR_dropbox, <<>>, <<32>> \o STR_neverBurn, STR_burnEveryTime \o <<32>>}

TimeDates ==
    {
      <<50, 48, 50, 50, 45, 48, 49, 45, 48, 49>>,   \* "2022-01-01"
      <<50, 48, 50, 48, 45, 48, 50, 45, 50, 57>>,   \* "2020-02-29"
      <<50, 48, 50, 49, 45, 48, 50, 45, 50, 57>>,   \* "2021-02-29"
      <<49, 57, 55, 48, 45, 48, 49, 45, 48, 49>>,   \* "1970-01-01"
      <<49, 57, 54, 57, 45, 49, 50, 45, 51, 49>>,   \* "1969-12-31"
      <<50, 48, 51, 55, 45, 49, 50, 45, 51, 49>>,   \* "2037-12-31"
      <<49, 57, 48, 50, 45, 48, 49, 45, 48, 49>>,   \* "1902-01-01"
      <<50, 48, 50, 50, 45, 49, 51, 45, 48, 49>>,   \* "2022-13-01"
      <<50, 48, 50, 50, 45, 48, 52, 45, 51, 49>>,   \* "2022-04-31"
      <<50, 48, 50, 50, 45, 49, 45, 48, 49>> }   \* "2022-1-01"
TimeSeparators ==
    {
      <<84>>,   \* "T"
      <<116>>,   \* "t"
      <<32>>,   \* " "
      <<>> }   \* ""
TimeTimes ==
    {
      <<48, 48, 58, 48, 48, 58, 48, 48>>,   \* "00:00:00"
      <<50, 51, 58, 53, 57, 58, 53, 57>>,   \* "23:59:59"
      <<50, 51, 58, 53, 57, 58, 54, 48>>,   \* "23:59:60"
      <<50, 52, 58, 48, 48, 58, 48, 48>>,   \* "24:00:00"
      <<49, 50, 58, 54, 48, 58, 48, 48>>,   \* "12:60:00"
      <<48, 48, 58, 48, 48, 58, 54, 49>>,   \* "00:00:61"
      <<48, 48, 58, 48, 48, 58, 48, 48, 46, 53>>,   \* "00:00:00.5"
      <<48, 48, 58, 48, 48, 58, 48, 48, 46>>,   \* "00:00:00."
      <<49, 50, 58, 51, 48, 58, 52, 53, 46, 50, 53, 48>>,   \* "12:30:45.250"
      <<>> }   \* ""
TimeZones ==
    {
      <<90>>,   \* "Z"
      <<122>>,   \* "z"
      <<43, 48, 48, 58, 48, 48>>,   \* "+00:00"
      <<45, 48, 53, 58, 51, 48>>,   \* "-05:30"
      <<43, 50, 51, 58, 53, 57>>,   \* "+23:59"
      <<43, 50, 52, 58, 48, 48>>,   \* "+24:00"
      <<43, 48, 53, 51, 48>>,   \* "+0530"
      <<45, 48, 48, 58, 54, 48>>,   \* "-00:60"
      <<>>,   \* ""
      <<90, 32>> }   \* "Z "

TimeInputs ==
    {dd \o sp \o tt \o zz : dd \in TimeDates, sp \in TimeSeparators, tt \in TimeTimes, zz \in TimeZones}
    \cup {<<>>, STR_soon}

AddressInputs ==
    {ADDR_System, ADDR_WrappedSol, <<>>, STR_NotValid, ADDR_Short, ADDR_Long, ADDR_BadChar}

Bytes(n, k, c) == [i \in 1..n |-> JU64((i * k + c) % 256)]
HashInputs ==
    {JSeq(Bytes(n, k, c)) : n \in 0..MaxHashLen, k \in {0, 7}, c \in {0, 255}}
    \cup {JSeq([Bytes(HASH_LEN, 7, 0) EXCEPT ![i] = bad]) :
            i \in {1, HASH_LEN}, bad \in {JU64(U8_MAX + 1), JI64(-1), JStr(<<>>)}}
    \cup {JStr(ADDR_System), JNull}

Absent == [t |-> "absent"]

GatekeeperValue(net, exp) ==
    JMap(<<Entry("gatekeeper_network", net), Entry("expire_on_use", exp)>>)
EndSettingsValue(ty, n) ==
    JMap(<<Entry("end_setting_type", ty), Entry("number", n)>>)
WhitelistValue(mode, mint, presale, discount) ==
    JMap(SelectSeq(<<Entry("mode", mode), Entry("mint", mint), Entry("presale", presale),
                     Entry("discountPrice", discount)>>, LAMBDA e : e.v # Absent))
HiddenValue(name, uri, hash) ==
    JMap(<<Entry("name", name), Entry("uri", uri), Entry("hash", hash)>>)

Keys == <<"price", "number", "gatekeeper", "solTreasuryAccount", "splTokenAccount", "splToken",
          "goLiveDate", "endSettings", "whitelistMintSettings", "hiddenSettings",
          "uploadMethod", "retainAuthority", "isMutable">>

\* A complete valid document.
Base ==
    << JF64(F64_One), JU64(MaxNumber), JNull, JStr(ADDR_System), JNull, JNull, JStr(STR_GoLive),
       JNull, JNull, JNull, JStr(STR_bundlr), JBool(TRUE), JBool(FALSE) >>

\* A few values per field, valid and invalid, combined pairwise.
SmallDom(i) ==
    CASE i = 1 -> {Base[1], JStr(<<49>>), JU64(1), Absent}
      [] i = 2 -> {Base[2], JI64(-1), Absent}
      [] i = 3 -> {Base[3], Absent, JBool(TRUE),
                   GatekeeperValue(JSeq(Bytes(PUBKEY_BYTES, 7, 0)), JBool(TRUE))}
      [] i = 4 -> {Base[4], JStr(STR_NotValid), Absent}
      [] i = 5 -> {Base[5], JStr(ADDR_WrappedSol), JStr(<<>>), Absent}
      [] i = 6 -> {Base[6], JStr(STR_NotValid), JU64(7)}
      [] i = 7 -> {Base[7], JStr(STR_DateOnly), JU64(0)}
      [] i = 8 -> {Base[8], EndSettingsValue(JStr(STR_Date), JU64(1)),
                   EndSettingsValue(JStr(STR_date), JU64(1))}
      [] i = 9 -> {Base[9],
                   WhitelistValue(JStr(STR_burnEveryTime), JStr(ADDR_WrappedSol), JBool(TRUE),
                                  JF64(F64_Half)),
                   WhitelistValue(JStr(ToLower(STR_burnEveryTime)), JStr(ADDR_WrappedSol),
                                  JBool(TRUE), JNull)}
      [] i = 10 -> {Base[10], HiddenValue(JStr(STR_Name), JStr(STR_Uri), JSeq(Bytes(HASH_LEN, 7, 0))),
                    HiddenValue(JStr(STR_Name), JStr(STR_Uri), JSeq(Bytes(HASH_LEN - 1, 7, 0)))}
      [] i = 11 -> {Base[11], JStr(STR_dropbox), Absent}
      [] i = 12 -> {Base[12], JStr(STR_bundlr)}
      [] i = 13 -> {Base[13], Absent}

\* Many values for one field, the others as in Base.
WideDom(i) ==
    CASE i = 1 -> {JF64(x) : x \in PriceInputs} \cup {JU64(n) : n \in 0..MaxNumber}
                  \cup {JI64(-n) : n \in 1..MaxNumber}
      [] i = 2 -> {JU64(n) : n \in 0..MaxNumber} \cup {JF64(F64_One), JNull}
      [] i = 3 -> {GatekeeperValue(JSeq(Bytes(n, 1, 0)), JBool(b)) :
                     n \in {PUBKEY_BYTES - 1, PUBKEY_BYTES, PUBKEY_BYTES + 1}, b \in BOOLEAN}
                  \cup {GatekeeperValue(JStr(ADDR_System), JBool(TRUE))}
      [] i = 4 -> {JStr(a) : a \in AddressInputs} \cup {JNull, JU64(7)}
      [] i = 5 -> {JStr(a) : a \in AddressInputs} \cup {JNull, JU64(7), JBool(TRUE), Absent}
      [] i = 6 -> {JStr(a) : a \in AddressInputs} \cup {JNull, JF64(F64_One), JSeq(<<>>), Absent}
      [] i = 7 -> {JStr(x) : x \in TimeInputs}
      [] i = 8 -> {EndSettingsValue(JStr(ty), JU64(n)) :
                     ty \in {STR_Date, STR_Amount, STR_date, STR_Other}, n \in 0..MaxNumber}
                  \cup {JSeq(<<JStr(STR_Amount), JU64(MaxNumber)>>), JSeq(<<JStr(STR_Amount)>>)}
      [] i = 9 -> {WhitelistValue(JStr(mo), JStr(ADDR_WrappedSol), JBool(TRUE), JF64(F64_Half)) :
                     mo \in ModeInputs}
                  \cup {WhitelistValue(JStr(STR_neverBurn), JStr(ADDR_System), JBool(FALSE), dp) :
                          dp \in {JF64(x) : x \in PriceInputs} \cup {JNull, Absent, JU64(1)}}
                  \cup {WhitelistValue(JU64(0), JStr(ADDR_System), JBool(FALSE), JNull)}
      [] i = 10 -> {HiddenValue(JStr(STR_Name), JStr(STR_Uri), h) : h \in HashInputs}
      [] i = 11 -> {JStr(x) : x \in UploadInputs} \cup {JNull, JU64(0)}
      [] i = 12 -> {JBool(b) : b \in BOOLEAN}
      [] i = 13 -> {JBool(b) : b \in BOOLEAN}

NumKeys == Len(Keys)

MkDoc(f, rev) ==
    LET es == SelectSeq([i \in 1..NumKeys |-> Entry(Keys[i], f[i])], LAMBDA e : e.v # Absent)
    IN  IF rev THEN Reverse(es) ELSE es

Pairs == {p \in (1..NumKeys) \X (1..NumKeys) : p[1] < p[2]}

\* Two fields varied over their few values, in document order or reversed.
PairDoc(p, v, w, rev) == MkDoc([[Base EXCEPT ![p[1]] = v] EXCEPT ![p[2]] = w], rev)

\* One field varied over its many values.
WideDoc(i, v) == MkDoc([Base EXCEPT ![i] = v], FALSE)

\* A complete document followed by a repeated or an unknown key; a repeated key
\* alone; the empty document.
ExtraDocs ==
    {MkDoc(Base, FALSE) \o <<e>> :
        e \in {Entry("price", JStr(<<>>)), Entry("splToken", JNull), Entry("Price", JStr(<<>>)),
               Entry("collection", JNull)}}
    \cup {<<Entry("isMutable", JNull), Entry("isMutable", JBool(TRUE))>>, <<>>}

(***************************************************************************)
(* The program: a document is deserialized into a ConfigData entry by      *)
(* entry; once it exists, its accessors and translations are applied.      *)
(***************************************************************************)
Init ==
    /\ \/ \E p \in Pairs, rev \in BOOLEAN :
            \E v \in SmallDom(p[1]), w \in SmallDom(p[2]) : doc = PairDoc(p, v, w, rev)
       \/ \E i \in 1..NumKeys : \E v \in WideDom(i) : doc = WideDoc(i, v)
       \/ doc \in ExtraDocs
    /\ pos = 1
    /\ slots = EmptySlots("ConfigData")
    /\ result = Pending
    /\ arg = None
    /\ op = "none"
    /\ ret = None

\* visit_map of ConfigData, one entry of the document per step.
Visit ==
    /\ result = Pending
    /\ pos <= Len(doc)
    /\ \E r \in {VisitEntry("ConfigData", slots, doc[pos],
                             DeField("ConfigData", FieldOfKey("ConfigData", doc[pos].k).name,
                                     doc[pos].v))} :
          IF r.t = "Err"
          THEN /\ result' = r
               /\ UNCHANGED <<pos, slots>>
          ELSE /\ slots' = r.v
               /\ pos' = pos + 1
               /\ UNCHANGED result
    /\ UNCHANGED <<doc, arg, op, ret>>

\* End of the document: the ConfigData is built, or a field is missing.
Finish ==
    /\ result = Pending
    /\ pos > Len(doc)
    /\ result' = EndOfMap("ConfigData", slots)
    /\ UNCHANGED <<doc, pos, slots, arg, op, ret>>

Apply(name, a, r) ==
    /\ arg' = a
    /\ op' = name
    /\ ret' = r
    /\ UNCHANGED <<doc, pos, slots, result>>

GoLiveDateAsTimestamp ==
    /\ result.t = "Ok"
    /\ Apply("go_live_date_as_timestamp", Some(result.v.go_live_date),
             go_live_date_as_timestamp(result.v.go_live_date))

PriceAsLamports ==
    /\ result.t = "Ok"
    /\ Apply("price_as_lamports", Some(result.v.price), Ok(price_as_lamports(result.v.price)))

GatekeeperIntoCandy ==
    /\ result.t = "Ok"
    /\ result.v.gatekeeper.t = "Some"
    /\ Apply("GatekeeperConfig::into_candy_format", result.v.gatekeeper,
             Ok(GatekeeperConfig_into_candy_format(result.v.gatekeeper.v)))

EndSettingsIntoCandy ==
    /\ result.t = "Ok"
    /\ result.v.end_settings.t = "Some"
    /\ Apply("EndSettings::into_candy_format", result.v.end_settings,
             Ok(EndSettings_into_candy_format(result.v.end_settings.v)))

WhitelistIntoCandy ==
    /\ result.t = "Ok"
    /\ result.v.whitelist_mint_settings.t = "Some"
    /\ Apply("WhitelistMintSettings::into_candy_format", result.v.whitelist_mint_settings,
             Ok(WhitelistMintSettings_into_candy_format(result.v.whitelist_mint_settings.v)))

HiddenIntoCandy ==
    /\ result.t = "Ok"
    /\ result.v.hidden_settings.t = "Some"
    /\ Apply("HiddenSettings::into_candy_format", result.v.hidden_settings,
             Ok(HiddenSettings_into_candy_format(result.v.hidden_settings.v)))

Next ==
    \/ Visit
    \/ Finish
    \/ GoLiveDateAsTimestamp
    \/ PriceAsLamports
    \/ GatekeeperIntoCandy
    \/ EndSettingsIntoCandy
    \/ WhitelistIntoCandy
    \/ HiddenIntoCandy

Spec == Init /\ [][Next]_vars

TypeOK ==
    /\ result.t \in {"Pending", "Ok", "Err"}
    /\ pos \in 1..(Len(doc) + 1)
    /\ op \in {"none", "go_live_date_as_timestamp", "price_as_lamports",
               "GatekeeperConfig::into_candy_format", "EndSettings::into_candy_format",
               "WhitelistMintSettings::into_candy_format", "HiddenSettings::into_candy_format"}

(***************************************************************************)
(* Vocabulary of the properties.                                           *)
(***************************************************************************)
\* Index of the first entry of the document with key k, 0 if there is none.
EntryIndex(k) ==
    IF \E i \in 1..Len(doc) : doc[i].k = k
    THEN Min({i \in 1..Len(doc) : doc[i].k = k}) ELSE 0

\* Construction failed while reading the value of key k.
FailedOn(k) ==
    /\ result.t = "Err"
    /\ pos <= Len(doc)
    /\ doc[pos].k = k
    /\ result.kind # "duplicate_field"

\* Construction failed at the end of the document.
FailedAtEnd == result.t = "Err" /\ pos > Len(doc)

\* s is tok (lower case) with any of its letters upper-cased.
IsSpelling(s, tok) ==
    /\ Len(s) = Len(tok)
    /\ \A i \in 1..Len(s) : s[i] = tok[i] \/ (tok[i] >= 97 /\ tok[i] <= 122 /\ s[i] = tok[i] - 32)

IsSuffix(x, s) == Len(x) <= Len(s) /\ SubSeq(s, Len(s) - Len(x) + 1, Len(s)) = x
IsPrefix(x, s) == Len(x) <= Len(s) /\ SubSeq(s, 1, Len(x)) = x

OptKeys == {"splTokenAccount", "splToken"}
NameOfKey(k) == FieldOfKey("ConfigData", k).name

EntryError(i) ==
    LET f == FieldOfKey("ConfigData", doc[i].k)
    IN  IF \E j \in 1..(i - 1) : doc[j].k = doc[i].k THEN ErrField("duplicate_field", f.key)
        ELSE DeField("ConfigData", f.name, doc[i].v)

\* The entries of known keys whose value is rejected, or whose key is repeated.
BadEntries == {i \in 1..Len(doc) : IsKey("ConfigData", doc[i].k) /\ EntryError(i).t = "Err"}

\* The fields without a default that the document does not hold.
MissingRequired ==
    {i \in 1..NumKeys : /\ EntryIndex(Keys[i]) = 0
                        /\ (FieldsOf("ConfigData")[i].with \/ ~FieldsOf("ConfigData")[i].opt)}

\* c has every field of ConfigData, each of its declared type.
Validated(c) ==
    /\ DOMAIN c = FieldNames("ConfigData")
    /\ c.price.cls = "fin"
    /\ c.number \in Nat
    /\ c.sol_treasury_account.t = "Pubkey"
    /\ Len(c.sol_treasury_account.bytes) = PUBKEY_BYTES
    /\ c.upload_method \in {"Metaplex", "Bundlr", "Arloader"}
    /\ c.retain_authority \in BOOLEAN
    /\ c.is_mutable \in BOOLEAN
    /\ \A n \in {"gatekeeper", "spl_token_account", "spl_token", "end_settings",
                 "whitelist_mint_settings", "hidden_settings"} : c[n].t \in {"None", "Some"}

(***************************************************************************)
(* C2: construction is atomic and fail-fast.  The outcome is a ConfigData  *)
(* with every field present and every required field validated, or one    *)
(* error and no ConfigData; with several invalid fields the error is that  *)
(* of the first one in processing order and reading stops there.           *)
(***************************************************************************)
C2_AtomicFailFast ==
    /\ result.t \in {"Pending", "Ok", "Err"}
    /\ result.t = "Pending" => pos <= Len(doc) + 1
    /\ result.t # "Pending" =>
          IF BadEntries # {}
          THEN /\ result = EntryError(Min(BadEntries))
               /\ pos = Min(BadEntries)
          ELSE IF MissingRequired # {}
          THEN /\ result = ErrField("missing_field", Keys[Min(MissingRequired)])
               /\ pos = Len(doc) + 1
          ELSE /\ result.t = "Ok"
               /\ Validated(result.v)

C2_Witness ==
    /\ result.t = "Err"
    /\ Cardinality(BadEntries) >= 2
    /\ pos = Min(BadEntries)
    /\ pos < Max(BadEntries)

ModeOf(v) == v.m[CHOOSE i \in 1..Len(v.m) : v.m[i].k = "mode"].v

(***************************************************************************)
(* C3 as claimed: on deserialization the whitelistMintSettings mode is     *)
(* matched after lower-casing, so the derived deserializer rejects a mode  *)
(* as an unknown variant only if WhitelistMintMode::from_str rejects it.   *)
(***************************************************************************)
C3_ModeCaseInsensitive ==
    (/\ FailedOn("whitelistMintSettings")
     /\ result.kind = "unknown_variant")
    => WhitelistMintMode_from_str(ModeOf(doc[pos].v).s).t = "Err"

UploadTokens == {<<STR_metaplex, "Metaplex">>, <<STR_bundlr, "Bundlr">>, <<STR_arloader, "Arloader">>}

(***************************************************************************)
(* C4: uploadMethod is accepted exactly when it is a spelling, in any      *)
(* letter case, of "metaplex", "bundlr" or "arloader"; any other string    *)
(* fails construction with "Unknown storage: " followed by the string as   *)
(* it was written.                                                         *)
(***************************************************************************)
C4_UploadMethod ==
    /\ slots.upload_method.t = "Some" =>
          LET v == doc[EntryIndex("uploadMethod")].v
          IN  /\ v.t = "str"
              /\ \E p \in UploadTokens : IsSpelling(v.s, p[1]) /\ slots.upload_method.v = p[2]
    /\ FailedOn("uploadMethod") =>
          LET v == doc[pos].v
          IN  v.t = "str" =>
                /\ \A p \in UploadTokens : ~IsSpelling(v.s, p[1])
                /\ result.kind = "custom"
                /\ result.msg = MSG_UnknownStorage \o v.s

C4_Witness ==
    /\ slots.upload_method = Some("Bundlr")
    /\ doc[EntryIndex("uploadMethod")].v = JStr(Upper(STR_bundlr, 1..Len(STR_bundlr)))

(***************************************************************************)
(* Exact arithmetic on the price x = m * 2^e, for comparison with the      *)
(* computed lamports r: x * LAMPORTS_PER_SOL = ExactMant(x) * 2^e.         *)
(***************************************************************************)
ExactMant(x) == BMul(x.m, FromNat(LAMPORTS_PER_SOL))
NegExp(x) == IF x.e < 0 THEN -x.e ELSE 0
PosExp(x) == IF x.e > 0 THEN x.e ELSE 0
BLeq(a, b) == ~BLess(b, a)
TWO_53 == BShl(<<1>>, F64_MANT_BITS)

\* r <= x * LAMPORTS_PER_SOL
AtMostExact(r, x) == BLeq(BShl(r, NegExp(x)), BShl(ExactMant(x), PosExp(x)))
\* floor(x * LAMPORTS_PER_SOL)
ExactFloor(x) == IF x.e < 0 THEN BShr(ExactMant(x), -x.e) ELSE BShl(ExactMant(x), x.e)
\* x * LAMPORTS_PER_SOL > 2^64 - 1
ExceedsU64(x) == BLess(BShl(U64_MAX, NegExp(x)), BShl(ExactMant(x), PosExp(x)))
\* r is within one part in 2^53 of the exact product, cut to an integer.
WithinOneUlp(r, x) ==
    /\ BLeq(BShl(r, F64_MANT_BITS + NegExp(x)),
            BShl(BMul(ExactMant(x), BAdd(TWO_53, <<1>>)), PosExp(x)))
    /\ BLess(BShl(BMul(ExactMant(x), MANT_Max), PosExp(x)),
             BShl(BAdd(r, <<1>>), F64_MANT_BITS + NegExp(x)))

IsU64(r) ==
    /\ BitLen(r) <= U64_BITS
    /\ \A i \in 1..Len(r) : r[i] \in 0..(BASE - 1)
    /\ r = Norm(r)

PriceApplied == op = "price_as_lamports"

(***************************************************************************)
(* C5 as claimed: price_as_lamports is amount * LAMPORTS_PER_SOL truncated *)
(* and never rounded up: 1.0 gives exactly 1_000_000_000, 0.000000001      *)
(* gives 0, and no result is above the exact product.                      *)
(***************************************************************************)
C5_TruncatesNeverRoundsUp ==
    PriceApplied =>
        /\ arg.v = F64_One => ret.v = FromNat(LAMPORTS_PER_SOL)
        /\ arg.v = F64_1e_9 => ret.v = <<>>
        /\ (arg.v.sign = 0 /\ ret.v # U64_MAX) => AtMostExact(ret.v, arg.v)

(***************************************************************************)
(* C5 amended: price_as_lamports multiplies in f64, so the product is      *)
(* rounded to the nearest double (possibly upwards across an integer), and *)
(* that double is truncated toward zero: 1.0 gives exactly 1_000_000_000,  *)
(* 0.000000001 gives 1, 0.0000000005 gives 0; a product that needs no      *)
(* rounding gives exactly its integer part, and every result is within one *)
(* part in 2^53 of the exact product, cut to an integer.                   *)
(***************************************************************************)
C5_TruncatedDoubleProduct ==
    PriceApplied =>
        /\ arg.v = F64_One => ret.v = FromNat(LAMPORTS_PER_SOL)
        /\ arg.v = F64_1e_9 => ret.v = <<1>>
        /\ arg.v = F64_5e_10 => ret.v = <<>>
        /\ (arg.v.sign = 0 /\ ret.v # U64_MAX) =>
              /\ WithinOneUlp(ret.v, arg.v)
              /\ BitLen(ExactMant(arg.v)) <= F64_MANT_BITS => ret.v = ExactFloor(arg.v)

C5_Witness ==
    /\ PriceApplied
    /\ arg.v = F64_1e_9
    /\ ret.v = <<1>>

WhitelistApplied == op = "WhitelistMintSettings::into_candy_format"

(***************************************************************************)
(* C6: the whitelist discount is translated by the same rule as the price. *)
(* into_candy_format gives discount_price = None when discountPrice is     *)
(* absent and Some(price_as_lamports(d)) when it is Some(d), for every d;  *)
(* 0.5 gives 500000000.                                                    *)
(***************************************************************************)
C6_DiscountSameRule ==
    WhitelistApplied =>
        /\ arg.v.discount_price.t = "None" => ret.v.discount_price = None
        /\ arg.v.discount_price.t = "Some" =>
              ret.v.discount_price = Some(price_as_lamports(arg.v.discount_price.v))
        /\ arg.v.discount_price = Some(F64_Half) => ret.v.discount_price = Some(FromNat(500000000))

C6_Witness ==
    /\ WhitelistApplied
    /\ arg.v.discount_price = Some(F64_0_29)
    /\ ret.v.discount_price.t = "Some"

EndSettingTypes == {"Date", "Amount"}
WhitelistMintModes == {"BurnEveryTime", "NeverBurn"}

(***************************************************************************)
(* C7: the bridge keeps the tag.  Every internal variant maps to the       *)
(* external variant of the same name, distinct variants map to distinct    *)
(* ones, and EndSettings::into_candy_format returns the tag and the number *)
(* it was given.                                                           *)
(***************************************************************************)
C7_BridgeKeepsTag ==
    /\ \A a \in EndSettingTypes : EndSettingType_into_candy_format(a) = CandyEndSettingType(a)
    /\ \A a \in WhitelistMintModes :
          WhitelistMintMode_into_candy_format(a) = CandyWhitelistMintMode(a)
    /\ \A a, c \in EndSettingTypes :
          EndSettingType_into_candy_format(a) = EndSettingType_into_candy_format(c) => a = c
    /\ \A a, c \in WhitelistMintModes :
          WhitelistMintMode_into_candy_format(a) = WhitelistMintMode_into_candy_format(c) => a = c
    /\ op = "EndSettings::into_candy_format" =>
          /\ arg.v.end_setting_type \in EndSettingTypes
          /\ ret.v.end_setting_type = CandyEndSettingType(arg.v.end_setting_type)
          /\ ret.v.number = arg.v.number
    /\ WhitelistApplied =>
          /\ arg.v.mode \in WhitelistMintModes
          /\ ret.v.mode = CandyWhitelistMintMode(arg.v.mode)

C7_Witness ==
    /\ op = "EndSettings::into_candy_format"
    /\ arg.v.end_setting_type = "Amount"
    /\ arg.v.number = MaxNumber
    /\ ret.v.number = MaxNumber

Fmt2(n) == <<CH_0 + (n \div 10), CH_0 + (n % 10)>>
ZoneTexts ==
    {<<CH_Z>>, <<CH_Z + 32>>}
    \cup {<<sg>> \o Fmt2(h) \o <<CH_COLON>> \o Fmt2(m) :
            sg \in {CH_PLUS, CH_DASH}, h \in 0..23, m \in 0..59}
IsFraction(f) == f = <<>> \/ (Len(f) >= 2 /\ f[1] = CH_DOT /\ \A i \in 2..Len(f) : IsDigit(f[i]))

\* The grammar of RFC 3339 section 5.6, with the field ranges it gives.
IsRfc3339(s) ==
    /\ Len(s) >= 20
    /\ \A i \in 1..4 : IsDigit(s[i])
    /\ s[5] = CH_DASH /\ s[8] = CH_DASH /\ s[11] \in {CH_T, CH_T + 32}
    /\ s[14] = CH_COLON /\ s[17] = CH_COLON
    /\ \E mo \in 1..12 :
          /\ SubSeq(s, 6, 7) = Fmt2(mo)
          /\ \E d \in 1..DaysInMonth(Num4(s, 1), mo) : SubSeq(s, 9, 10) = Fmt2(d)
    /\ \E h \in 0..23 : SubSeq(s, 12, 13) = Fmt2(h)
    /\ \E mi \in 0..59 : SubSeq(s, 15, 16) = Fmt2(mi)
    /\ \E sec \in 0..60 : SubSeq(s, 18, 19) = Fmt2(sec)
    /\ \E j \in 20..Len(s) :
          /\ IsFraction(SubSeq(s, 20, j - 1))
          /\ SubSeq(s, j, Len(s)) \in ZoneTexts

(***************************************************************************)
(* C8: goLiveDate is validated lazily.  Construction accepts any string    *)
(* and keeps it as written; go_live_date_as_timestamp alone parses it,     *)
(* giving the epoch seconds of an RFC 3339 date-time                       *)
(* ("2022-01-01T00:00:00Z" gives 1640995200) and an error for any other    *)
(* string ("2022-01-01" fails), and the configuration is not changed.      *)
(***************************************************************************)
C8_LazyGoLiveDate ==
    /\ FailedOn("goLiveDate") => doc[pos].v.t # "str"
    /\ slots.go_live_date.t = "Some" =>
          doc[EntryIndex("goLiveDate")].v = JStr(slots.go_live_date.v)
    /\ result.t = "Ok" => doc[EntryIndex("goLiveDate")].v = JStr(result.v.go_live_date)
    /\ op = "go_live_date_as_timestamp" =>
          /\ result.t = "Ok"
          /\ result.v.go_live_date = arg.v
          /\ ret.t = "Ok" <=> IsRfc3339(arg.v)
          /\ arg.v = STR_GoLive => ret = Ok(1640995200)
          /\ arg.v = STR_DateOnly => ret.t = "Err"

C8_Witness ==
    /\ op = "go_live_date_as_timestamp"
    /\ result.t = "Ok"
    /\ arg.v = STR_DateOnly
    /\ ret.t = "Err"

HashOf(v) == v.m[CHOOSE i \in 1..Len(v.m) : v.m[i].k = "hash"].v
AllBytes(a) == \A i \in 1..Len(a) : a[i].t = "u64" /\ a[i].n <= U8_MAX

(***************************************************************************)
(* C9: HiddenSettings is constructed only from a hash of exactly 32 bytes; *)
(* any other length fails with a length error, and into_candy_format       *)
(* returns the 32 bytes, the name and the uri unchanged.                   *)
(***************************************************************************)
C9_HashLength ==
    /\ FailedOn("hiddenSettings") =>
          LET h == HashOf(doc[pos].v)
          IN  (h.t = "seq" /\ AllBytes(h.a)) =>
                 (Len(h.a) # HASH_LEN /\ result.kind = "invalid_length")
    /\ (slots.hidden_settings.t = "Some" /\ slots.hidden_settings.v.t = "Some") =>
          LET h == HashOf(doc[EntryIndex("hiddenSettings")].v)
              c == slots.hidden_settings.v.v
          IN  /\ h.t = "seq"
              /\ Len(h.a) = HASH_LEN
              /\ Len(c.hash) = HASH_LEN
              /\ \A i \in 1..HASH_LEN : c.hash[i] = h.a[i].n
    /\ op = "HiddenSettings::into_candy_format" =>
          /\ Len(ret.v.hash) = HASH_LEN
          /\ \A i \in 1..HASH_LEN : ret.v.hash[i] = arg.v.hash[i]
          /\ ret.v.name = arg.v.name
          /\ ret.v.uri = arg.v.uri

C9_Witness ==
    /\ FailedOn("hiddenSettings")
    /\ HashOf(doc[pos].v).t = "seq"
    /\ AllBytes(HashOf(doc[pos].v).a)
    /\ Len(HashOf(doc[pos].v).a) = HASH_LEN + 1
    /\ result.kind = "invalid_length"

Clamped(x, r) ==
    /\ IsU64(r)
    /\ x.sign = 1 => r = <<>>
    /\ (x.sign = 0 /\ ExceedsU64(x)) => r = U64_MAX

(***************************************************************************)
(* C10: price_as_lamports never fails and never wraps: the result is in    *)
(* 0..2^64-1, every negative price gives 0, and every price whose product  *)
(* with LAMPORTS_PER_SOL exceeds 2^64-1 gives 2^64-1; a present discount   *)
(* is clamped by discount_price_to_lamports in the same way.               *)
(***************************************************************************)
C10_Saturating ==
    /\ PriceApplied => (ret.t = "Ok" /\ Clamped(arg.v, ret.v))
    /\ (WhitelistApplied /\ arg.v.discount_price.t = "Some") =>
          /\ ret.v.discount_price.t = "Some"
          /\ Clamped(arg.v.discount_price.v, ret.v.discount_price.v)

C10_Witness ==
    /\ PriceApplied
    /\ arg.v.sign = 0
    /\ ExceedsU64(arg.v)
    /\ arg.v # F64_Max
    /\ ret.v = U64_MAX

=============================================================================
